---- MODULE Spec2Model ----
(***************************************************************************)
(* Booking lifecycle and seat accounting of the ride-sharing backend.      *)
(*                                                                         *)
(* The document store (Firestore) is the state: the rides, bookings and    *)
(* notifications collections.  The request handlers create_booking and     *)
(* handle_booking_action (rideshare/app/api/v1/endpoints/bookings.py) and  *)
(* update_ride and cancel_ride (.../unified_rides.py) are sequences of     *)
(* store reads and writes.  Each store call is one step; a handler's       *)
(* local variables live in a handler record between its steps.             *)
(*                                                                         *)
(*   Spec      the booking handlers on one ride, two requests in flight,   *)
(*             their store calls interleaved                               *)
(*   SpecSeq   the booking handlers on two rides, one request at a time,   *)
(*             each run from its first store call to its response          *)
(*   SpecRides SpecSeq plus update_ride and cancel_ride                    *)
(*   SpecCrash  Spec with one request at a time, whose process may stop    *)
(*              between two store calls                                    *)
(*   SpecFail   SpecSeq plus requests whose notification write raises      *)
(*   SpecOffer  the booking handlers on rides made by create_ride_offer    *)
(*   SpecSearch get_ride_offers and get_ride_requests on three rides       *)
(*   SpecNearby the ConnectionManager (websocket_service.py) and           *)
(*              LocationService.get_nearby_places (location_service.py)    *)
(*   SpecDistance calculate_distance (unified_rides.py) in fixed point     *)
(*   SpecRideRace update_ride and cancel_ride, store calls interleaved     *)
(*   SpecChat   SpecSeq plus send_message (backend/.../chat.py)            *)
(*   SpecSockets the WebSocket endpoint (websocket.py) over the manager    *)
(***************************************************************************)
EXTENDS Integers, Sequences, FiniteSets, Bags, TLC

\* ------------------------------------------------------------------ bounds

\* Largest seat count a ride is created with.
MaxSeats == 2
\* Largest seats_requested of a create_booking request in the model.
MaxSeatsRequested == 2
\* Requests received in one behaviour.
MaxRequests == 4

\* Largest coordinate (km along the meridian) of a place, ride or user.
MaxCoord == 2
\* Largest page size asked of a ride-discovery query.
MaxLimit == 2

\* ---------------------------------------------------------------- universe

None == "None"

\* The users collection (read only by the handlers modelled here).
Users == {"d1", "p1", "p2"}
\* A user id with no document in the users collection.
Ghost == "ghost"

RideIds == {"r1", "r2"}
\* A ride id with no document in the rides collection.
NoRide == "r0"

\* Action tokens a client may send; the handler lower-cases them.
ActionTokens == {"accept", "Accept", "reject", "cancel", "finish"}

\* str.lower() on the action tokens of the model.
Lower(token) == IF token = "Accept" THEN "accept" ELSE token

VARIABLES
    rides,          \* rides collection: ride id -> document
    bookings,       \* bookings collection: booking id (1..n) -> document
    notifications,  \* notifications collection: a bag of documents
    slots,          \* handler records of the requests in flight
    nreq,           \* requests received so far
    created_seats,  \* seats_available each ride was created with
    response,       \* the last response of a read-only operation
    manager,        \* the ConnectionManager instance
    endpoints       \* the websocket_location_tracking handlers running

vars == <<rides, bookings, notifications, slots, nreq, created_seats,
          response, manager, endpoints>>

\* The three collections as one value, as the handlers see them.
DB == [rides |-> rides, bookings |-> bookings, notifications |-> notifications]

\* ------------------------------------------------------------ handler record

\* A handler's request arguments and local variables; pc names the store call
\* it makes next.
IdleHandler ==
    [pc |-> "idle", op |-> None, result |-> None,
     booking_id |-> 0, action |-> None, actor_id |-> None,
     ride_id |-> None, passenger_id |-> None, seats |-> 0,
     driver_id |-> None, current_status |-> None, new_available_seats |-> 0,
     ride_update |-> <<>>, notify_fails |-> FALSE]

\* dict.get(key, default): the stored value, or the default when the document
\* has no such field (None when no default is given).
DictGet(doc, key, default) == IF key \in DOMAIN doc THEN doc[key] ELSE default

\* except Exception: raise HTTPException(500): a store call that raises ends
\* the handler with the internal error; what was written before it stays.
\* notify_fails says that the request's notification write raises.
WithNotifyFailure(h) == [h EXCEPT !.notify_fails = TRUE]

\* raise HTTPException(...): the handler ends with an error and writes nothing more.
Raise(db, h, error) == [db |-> db, h |-> [h EXCEPT !.pc = "done", !.result = error]]

\* The handler goes on to its next store call.
Goto(db, h, pc) == [db |-> db, h |-> [h EXCEPT !.pc = pc]]

\* return {"success": True, ...}
ReturnOk(db, h) == [db |-> db, h |-> [h EXCEPT !.pc = "done", !.result = "ok"]]

\* notification_ref.set(notification_doc)
NotificationSet(db, doc) ==
    [db EXCEPT !.notifications = db.notifications (+) SetToBag({doc})]

\* ride_ref.update({"seats_available": n, ...})
RideUpdateSeats(db, ride_id, n) ==
    [db EXCEPT !.rides[ride_id].seats_available = n]

\* booking_ref.update({"status": s, ...}); cancel also stores cancelled_by.
BookingUpdateStatus(db, booking_id, s, by) ==
    [db EXCEPT !.bookings[booking_id].status = s,
               !.bookings[booking_id].cancelled_by = by]

\* ------------------------------------------------------------ create_booking

\* Steps 1-3: read the ride; 404 when absent, refuse the ride's own driver,
\* refuse a request for more seats than the ride has left.
CreateRideGet(db, h) ==
    IF h.ride_id \notin DOMAIN db.rides
    THEN Raise(db, h, "ride_not_found")
    ELSE LET ride_data == db.rides[h.ride_id]
             driver_id == DictGet(ride_data, "driver_id", None)
             seats_available == DictGet(ride_data, "seats_available", 0)
         IN IF driver_id = h.passenger_id
            THEN Raise(db, h, "own_ride")
            ELSE IF seats_available < h.seats
            THEN Raise(db, h, "not_enough_seats")
            ELSE Goto(db, [h EXCEPT !.driver_id = driver_id], "create_query")

\* The bookings of this passenger on this ride with status pending or accepted.
ExistingBookings(db, ride_id, passenger_id) ==
    {b \in DOMAIN db.bookings :
        /\ db.bookings[b].ride_id = ride_id
        /\ db.bookings[b].passenger_id = passenger_id
        /\ db.bookings[b].status \in {"pending", "accepted"}}

\* Steps 4-5: the existing-booking query, then the passenger's user document.
CreateExistingQuery(db, h) ==
    IF ExistingBookings(db, h.ride_id, h.passenger_id) # {}
    THEN Raise(db, h, "already_booked")
    ELSE IF h.passenger_id \notin Users
    THEN Raise(db, h, "passenger_not_found")
    ELSE Goto(db, h, "create_set")

\* Mutant of CreateBookingSet: the seats are taken from the ride at request time.
CreateBookingSet_Reserve(db, h) ==
    LET booking_id == Len(db.bookings) + 1
        booking_doc == [ride_id |-> h.ride_id,
                        passenger_id |-> h.passenger_id,
                        driver_id |-> h.driver_id,
                        seats_booked |-> h.seats,
                        status |-> "pending",
                        cancelled_by |-> None]
    IN Goto([db EXCEPT !.bookings = Append(db.bookings, booking_doc),
                       !.rides[h.ride_id].seats_available = @ - h.seats],
            [h EXCEPT !.booking_id = booking_id], "create_notify")

\* Step 6: insert the booking document under a fresh id, status pending.
CreateBookingSet(db, h) ==
    LET booking_id == Len(db.bookings) + 1
        booking_doc == [ride_id |-> h.ride_id,
                        passenger_id |-> h.passenger_id,
                        driver_id |-> h.driver_id,
                        seats_booked |-> h.seats,
                        status |-> "pending",
                        cancelled_by |-> None]
    IN Goto([db EXCEPT !.bookings = Append(db.bookings, booking_doc)],
            [h EXCEPT !.booking_id = booking_id], "create_notify")

\* Step 7: the booking_request notification for the driver, then the response.
CreateNotify(db, h) ==
    IF h.notify_fails
    THEN Raise(db, h, "internal_error")
    ELSE ReturnOk(NotificationSet(db,
                      [user_id |-> h.driver_id, type |-> "booking_request",
                       booking_id |-> h.booking_id, ride_id |-> h.ride_id,
                       cancelled_by |-> None, read |-> FALSE]),
                  h)

\* ----------------------------------------------------- handle_booking_action

\* Mutant of ActionBookingGet: a cancel is taken from any actor.
ActionBookingGet_AnyCanceller(db, h) ==
    IF h.booking_id \notin DOMAIN db.bookings
    THEN Raise(db, h, "booking_not_found")
    ELSE LET booking_data == db.bookings[h.booking_id]
             action == Lower(h.action)
             h1 == [h EXCEPT !.driver_id = booking_data.driver_id,
                             !.passenger_id = booking_data.passenger_id,
                             !.current_status = booking_data.status,
                             !.seats = booking_data.seats_booked,
                             !.ride_id = booking_data.ride_id]
         IN IF booking_data.status \notin {"pending", "accepted"}
            THEN Raise(db, h, "cannot_modify")
            ELSE IF action \in {"accept", "reject"}
            THEN IF h.actor_id # booking_data.driver_id
                 THEN Raise(db, h, "forbidden")
                 ELSE IF booking_data.status # "pending"
                 THEN Raise(db, h, "not_pending")
                 ELSE Goto(db, h1, IF action = "accept" THEN "accept_ride_get"
                                   ELSE "reject_update")
            ELSE IF action = "cancel"
            THEN IF booking_data.status = "accepted"
                 THEN Goto(db, h1, "cancel_ride_get")
                 ELSE Goto(db, h1, "cancel_update")
            ELSE Raise(db, h, "invalid_action")

\* Steps 1-2 and the checks of the chosen branch that need no further read:
\* read the booking, check its status, the action token and the actor.
ActionBookingGet(db, h) ==
    IF h.booking_id \notin DOMAIN db.bookings
    THEN Raise(db, h, "booking_not_found")
    ELSE LET booking_data == db.bookings[h.booking_id]
             action == Lower(h.action)
             driver_id == booking_data.driver_id
             passenger_id == booking_data.passenger_id
             current_status == booking_data.status
             h1 == [h EXCEPT !.driver_id = driver_id,
                             !.passenger_id = passenger_id,
                             !.current_status = current_status,
                             !.seats = booking_data.seats_booked,
                             !.ride_id = booking_data.ride_id]
         IN IF current_status \notin {"pending", "accepted"}
            THEN Raise(db, h, "cannot_modify")
            ELSE IF action = "accept"
            THEN IF h.actor_id # driver_id
                 THEN Raise(db, h, "forbidden")
                 ELSE IF current_status # "pending"
                 THEN Raise(db, h, "not_pending")
                 ELSE Goto(db, h1, "accept_ride_get")
            ELSE IF action = "reject"
            THEN IF h.actor_id # driver_id
                 THEN Raise(db, h, "forbidden")
                 ELSE IF current_status # "pending"
                 THEN Raise(db, h, "not_pending")
                 ELSE Goto(db, h1, "reject_update")
            ELSE IF action = "cancel"
            THEN IF h.actor_id \notin {driver_id, passenger_id}
                 THEN Raise(db, h, "forbidden")
                 ELSE IF current_status = "accepted"
                 THEN Goto(db, h1, "cancel_ride_get")
                 ELSE Goto(db, h1, "cancel_update")
            ELSE Raise(db, h, "invalid_action")

\* Mutant of AcceptRideGet: the negative seat count is not refused.
AcceptRideGet_NoCheck(db, h) ==
    IF h.ride_id \in DOMAIN db.rides
    THEN Goto(db, [h EXCEPT !.new_available_seats =
                                db.rides[h.ride_id].seats_available - h.seats],
              "accept_ride_update")
    ELSE Goto(db, h, "accept_update")

\* Mutant of AcceptRideGet: one seat is taken whatever the booking's seats_booked.
AcceptRideGet_OneSeat(db, h) ==
    IF h.ride_id \in DOMAIN db.rides
    THEN LET new_available_seats == db.rides[h.ride_id].seats_available - 1
         IN IF new_available_seats < 0
            THEN Raise(db, h, "not_enough_seats")
            ELSE Goto(db, [h EXCEPT !.new_available_seats = new_available_seats],
                      "accept_ride_update")
    ELSE Goto(db, h, "accept_update")

\* Mutant of AcceptRideGet: the check looks at the stored count, not the new one.
AcceptRideGet_OldCount(db, h) ==
    IF h.ride_id \in DOMAIN db.rides
    THEN LET new_available_seats == db.rides[h.ride_id].seats_available - h.seats
         IN IF db.rides[h.ride_id].seats_available <= 0
            THEN Raise(db, h, "not_enough_seats")
            ELSE Goto(db, [h EXCEPT !.new_available_seats = new_available_seats],
                      "accept_ride_update")
    ELSE Goto(db, h, "accept_update")

\* Mutant of AcceptRideGet: the new seat count is written before it is checked.
AcceptRideGet_WriteFirst(db, h) ==
    IF h.ride_id \in DOMAIN db.rides
    THEN LET new_available_seats == db.rides[h.ride_id].seats_available - h.seats
             written == RideUpdateSeats(db, h.ride_id, new_available_seats)
         IN IF new_available_seats < 0
            THEN Raise(written, h, "not_enough_seats")
            ELSE Goto(db, [h EXCEPT !.new_available_seats = new_available_seats],
                      "accept_ride_update")
    ELSE Goto(db, h, "accept_update")

\* accept: re-read the ride and recompute its seat count; refuse a negative one.
AcceptRideGet(db, h) ==
    IF h.ride_id \in DOMAIN db.rides
    THEN LET new_available_seats == db.rides[h.ride_id].seats_available - h.seats
         IN IF new_available_seats < 0
            THEN Raise(db, h, "not_enough_seats")
            ELSE Goto(db, [h EXCEPT !.new_available_seats = new_available_seats],
                      "accept_ride_update")
    ELSE Goto(db, h, "accept_update")

\* Mutant of AcceptRideUpdate: seat count and booking status in one write.
AcceptRideUpdate_WithStatus(db, h) ==
    Goto(BookingUpdateStatus(RideUpdateSeats(db, h.ride_id, h.new_available_seats),
                             h.booking_id, "accepted",
                             db.bookings[h.booking_id].cancelled_by),
         h, "accept_update")

\* accept: write the ride's new seat count.
AcceptRideUpdate(db, h) ==
    Goto(RideUpdateSeats(db, h.ride_id, h.new_available_seats), h, "accept_update")

\* accept: write the booking's status.
AcceptBookingUpdate(db, h) ==
    Goto(BookingUpdateStatus(db, h.booking_id, "accepted",
                             db.bookings[h.booking_id].cancelled_by),
         h, "accept_notify")

\* accept: the booking_accepted notification for the passenger, then the response.
AcceptNotify(db, h) ==
    IF h.notify_fails
    THEN Raise(db, h, "internal_error")
    ELSE ReturnOk(NotificationSet(db,
                      [user_id |-> h.passenger_id, type |-> "booking_accepted",
                       booking_id |-> h.booking_id, ride_id |-> h.ride_id,
                       cancelled_by |-> None, read |-> FALSE]),
                  h)

\* reject: write the booking's status.
RejectBookingUpdate(db, h) ==
    Goto(BookingUpdateStatus(db, h.booking_id, "rejected",
                             db.bookings[h.booking_id].cancelled_by),
         h, "reject_notify")

\* reject: the booking_rejected notification for the passenger, then the response.
RejectNotify(db, h) ==
    IF h.notify_fails
    THEN Raise(db, h, "internal_error")
    ELSE ReturnOk(NotificationSet(db,
                      [user_id |-> h.passenger_id, type |-> "booking_rejected",
                       booking_id |-> h.booking_id, ride_id |-> h.ride_id,
                       cancelled_by |-> None, read |-> FALSE]),
                  h)

\* Mutant of CancelRideGet: one seat is returned whatever the booking's
\* seats_booked.
CancelRideGet_OneSeat(db, h) ==
    IF h.ride_id \in DOMAIN db.rides
    THEN Goto(db, [h EXCEPT !.new_available_seats =
                                db.rides[h.ride_id].seats_available + 1],
              "cancel_ride_update")
    ELSE Goto(db, h, "cancel_update")

\* cancel of an accepted booking: re-read the ride and add the seats back.
CancelRideGet(db, h) ==
    IF h.ride_id \in DOMAIN db.rides
    THEN Goto(db, [h EXCEPT !.new_available_seats =
                                db.rides[h.ride_id].seats_available + h.seats],
              "cancel_ride_update")
    ELSE Goto(db, h, "cancel_update")

\* cancel of an accepted booking: write the ride's new seat count.
CancelRideUpdate(db, h) ==
    Goto(RideUpdateSeats(db, h.ride_id, h.new_available_seats), h, "cancel_update")

\* cancel: write the booking's status and who cancelled.
CancelBookingUpdate(db, h) ==
    Goto(BookingUpdateStatus(db, h.booking_id, "cancelled", h.actor_id),
         h, "cancel_notify")

\* Mutant of CancelNotify: the notification goes to the canceller.
CancelNotify_ToActor(db, h) ==
    IF h.notify_fails
    THEN Raise(db, h, "internal_error")
    ELSE ReturnOk(NotificationSet(db,
                      [user_id |-> h.actor_id, type |-> "booking_cancelled",
                       booking_id |-> h.booking_id, ride_id |-> h.ride_id,
                       cancelled_by |-> h.actor_id, read |-> FALSE]),
                  h)

\* cancel: the booking_cancelled notification for the other party, then the
\* response.
CancelNotify(db, h) ==
    IF h.notify_fails
    THEN Raise(db, h, "internal_error")
    ELSE LET notify_user_id == IF h.actor_id = h.passenger_id
                               THEN h.driver_id ELSE h.passenger_id
         IN ReturnOk(NotificationSet(db,
                         [user_id |-> notify_user_id, type |-> "booking_cancelled",
                          booking_id |-> h.booking_id, ride_id |-> h.ride_id,
                          cancelled_by |-> h.actor_id, read |-> FALSE]),
                     h)

\* ------------------------------------------------- update_ride, cancel_ride

\* JSON values of an update_ride body.
JInt(n) == [t |-> "int", v |-> n]
JStr(x) == [t |-> "str", v |-> x]
JNull == [t |-> "null", v |-> None]

\* update_data = {k: v for k, v in ride_update.items() if v is not None}
UpdateData(ride_update) ==
    [k \in {f \in DOMAIN ride_update : ride_update[f].t # "null"} |->
        ride_update[k].v]

\* document.update(update_data): the given fields replace the stored ones.
RideUpdate(db, ride_id, update_data) ==
    [db EXCEPT !.rides[ride_id] =
        [k \in DOMAIN db.rides[ride_id] \cup DOMAIN update_data |->
            IF k \in DOMAIN update_data THEN update_data[k]
            ELSE db.rides[ride_id][k]]]

\* update_ride: read the ride; only its creator may update it, and not once
\* it is completed or cancelled.
UpdateRideGet(db, h) ==
    IF h.ride_id \notin DOMAIN db.rides
    THEN Raise(db, h, "ride_not_found")
    ELSE LET ride_data == db.rides[h.ride_id]
         IN IF ride_data.user_id # h.actor_id
            THEN Raise(db, h, "forbidden")
            ELSE IF ride_data.status \in {"completed", "cancelled"}
            THEN Raise(db, h, "cannot_update")
            ELSE Goto(db, h, "update_ride_write")

\* update_ride: write every non-null field of the body to the ride.
UpdateRideWrite(db, h) ==
    ReturnOk(RideUpdate(db, h.ride_id, UpdateData(h.ride_update)), h)

\* cancel_ride: read the ride; only its creator may cancel it, and not once
\* it is completed.
CancelRideDocGet(db, h) ==
    IF h.ride_id \notin DOMAIN db.rides
    THEN Raise(db, h, "ride_not_found")
    ELSE LET ride_data == db.rides[h.ride_id]
         IN IF ride_data.user_id # h.actor_id
            THEN Raise(db, h, "forbidden")
            ELSE IF ride_data.status = "completed"
            THEN Raise(db, h, "cannot_cancel")
            ELSE Goto(db, h, "ride_cancel_write")

\* cancel_ride: write status cancelled.
CancelRideWrite(db, h) ==
    ReturnOk(RideUpdate(db, h.ride_id, [status |-> "cancelled"]), h)

\* ---------------------------------------------------------- create_ride_offer

\* The document id Firestore gives the next added ride.
NewRideId(db) == CHOOSE r \in RideIds \ DOMAIN db.rides :
                    \A q \in RideIds \ DOMAIN db.rides : r = "r1" \/ q # "r1"

\* create_ride_offer: 404 for an unknown user, 400 when the location service
\* finds no address for the coordinates; otherwise the ride document is added
\* with the creator as user_id.  The document has no driver_id field.
create_ride_offer(db, seats_available, user_id, current_location) ==
    LET h == [IdleHandler EXCEPT !.op = "create_ride_offer", !.actor_id = user_id]
    IN IF user_id \notin Users
       THEN Raise(db, h, "user_not_found")
       ELSE IF current_location = None
       THEN Raise(db, h, "no_location")
       ELSE LET ride_id == NewRideId(db)
                ride_doc == [user_id |-> user_id, ride_type |-> "offer",
                             seats_available |-> seats_available,
                             status |-> "active"]
            IN ReturnOk([db EXCEPT !.rides =
                            [r \in DOMAIN db.rides \cup {ride_id} |->
                                IF r = ride_id THEN ride_doc ELSE db.rides[r]]],
                        [h EXCEPT !.ride_id = ride_id])

\* The store call a handler makes at its pc.
Step(db, h) ==
    CASE h.pc = "create_ride_get"    -> CreateRideGet(db, h)
      [] h.pc = "create_query"       -> CreateExistingQuery(db, h)
      [] h.pc = "create_set"         -> CreateBookingSet(db, h)
      [] h.pc = "create_notify"      -> CreateNotify(db, h)
      [] h.pc = "booking_get"        -> ActionBookingGet(db, h)
      [] h.pc = "accept_ride_get"    -> AcceptRideGet(db, h)
      [] h.pc = "accept_ride_update" -> AcceptRideUpdate(db, h)
      [] h.pc = "accept_update"      -> AcceptBookingUpdate(db, h)
      [] h.pc = "accept_notify"      -> AcceptNotify(db, h)
      [] h.pc = "reject_update"      -> RejectBookingUpdate(db, h)
      [] h.pc = "reject_notify"      -> RejectNotify(db, h)
      [] h.pc = "cancel_ride_get"    -> CancelRideGet(db, h)
      [] h.pc = "cancel_ride_update" -> CancelRideUpdate(db, h)
      [] h.pc = "cancel_update"      -> CancelBookingUpdate(db, h)
      [] h.pc = "cancel_notify"      -> CancelNotify(db, h)
      [] h.pc = "update_ride_get"    -> UpdateRideGet(db, h)
      [] h.pc = "update_ride_write"  -> UpdateRideWrite(db, h)
      [] h.pc = "ride_cancel_get"    -> CancelRideDocGet(db, h)
      [] h.pc = "ride_cancel_write"  -> CancelRideWrite(db, h)
      [] OTHER                       -> [db |-> db, h |-> h]

\* A handler run from its pc to its response with no other request in between.
RECURSIVE Run(_, _)
Run(db, h) ==
    IF h.pc \in {"done", "idle"}
    THEN [db |-> db, h |-> h]
    ELSE LET r == Step(db, h) IN Run(r.db, r.h)

\* The handler record of a create_booking request as received.
CreateRequest(ride_id, passenger_id, seats_requested) ==
    [IdleHandler EXCEPT !.pc = "create_ride_get", !.op = "create_booking",
                        !.ride_id = ride_id, !.passenger_id = passenger_id,
                        !.seats = seats_requested]

\* The handler record of a handle_booking_action request as received.
ActionRequest(booking_id, action, actor_id) ==
    [IdleHandler EXCEPT !.pc = "booking_get", !.op = "handle_booking_action",
                        !.booking_id = booking_id, !.action = action,
                        !.actor_id = actor_id]

\* update_ride as one call.
update_ride(db, ride_id, ride_update, user_id) ==
    Run(db, [IdleHandler EXCEPT !.pc = "update_ride_get", !.op = "update_ride",
                                !.ride_id = ride_id, !.actor_id = user_id,
                                !.ride_update = ride_update])

\* cancel_ride as one call.
cancel_ride(db, ride_id, user_id) ==
    Run(db, [IdleHandler EXCEPT !.pc = "ride_cancel_get", !.op = "cancel_ride",
                                !.ride_id = ride_id, !.actor_id = user_id])

\* create_booking as one call.
create_booking(db, ride_id, passenger_id, seats_requested) ==
    Run(db, CreateRequest(ride_id, passenger_id, seats_requested))

\* handle_booking_action as one call.
handle_booking_action(db, booking_id, action, actor_id) ==
    Run(db, ActionRequest(booking_id, action, actor_id))

\* ------------------------------------------- get_ride_offers, get_ride_requests

\* Coordinates are points of one meridian, each given by its distance in km
\* along the meridian from a fixed point; the great-circle distance of two of
\* them is the difference of the two.
Coords == 0..MaxCoord

calculate_distance(lat1, lat2) == IF lat2 >= lat1 THEN lat2 - lat1 ELSE lat1 - lat2

\* The document ids of the rides collection, in the order a query returns
\* the documents.
SearchOrder == <<"r1", "r2", "r3">>

\* list[a:b]
Slice(list, a, b) == SubSeq(list, a + 1, IF b < Len(list) THEN b ELSE Len(list))

\* list.sort(key=...): the positions of the list in non-decreasing order of
\* key, equal keys in their order in the list.
RECURSIVE SortedOrder(_, _)
SortedOrder(key, n) ==
    IF n = 0 THEN <<>>
    ELSE LET prev == SortedOrder(key, n - 1)
             k == Cardinality({i \in DOMAIN prev : key[prev[i]] <= key[n]})
         IN SubSeq(prev, 1, k) \o <<n>> \o SubSeq(prev, k + 1, Len(prev))

ListSort(list, key) ==
    LET order == SortedOrder(key, Len(list))
    IN [i \in DOMAIN list |-> list[order[i]]]

\* rides.where("ride_type", "==", t).where("status", "==", "active")
\*      .limit(n).get(): the ids of the first n such documents.
RidesQuery(rs, ride_type, n) ==
    Slice(SelectSeq(SearchOrder,
                    LAMBDA id : /\ id \in DOMAIN rs
                                /\ rs[id].ride_type = ride_type
                                /\ rs[id].status = "active"),
          0, n)

\* The entry of the result list for a ride.
RideEntry(rs, id, destination_lat) ==
    [ride_id |-> id,
     distance_to_destination |->
         calculate_distance(destination_lat, rs[id].destination)]

\* The response: one page of the list, and the length of the whole list.
Page(list, page, limit) ==
    LET offset == (page - 1) * limit
    IN [rides |-> Slice(list, offset, offset + limit),
        total_count |-> Len(list), page |-> page, limit |-> limit]

\* Mutant of get_ride_offers: the list is not sorted.
get_ride_offers_Unsorted(rs, destination_lat, max_distance, max_price, page, limit) ==
    LET rides_docs == RidesQuery(rs, "offer", limit * 2)
        kept == SelectSeq(rides_docs,
                    LAMBDA id :
                        /\ ~(calculate_distance(destination_lat, rs[id].destination)
                                 > max_distance)
                        /\ ~(max_price # 0 /\ rs[id].price_per_seat > max_price))
        found == [i \in DOMAIN kept |-> RideEntry(rs, kept[i], destination_lat)]
    IN Page(found, page, limit)

\* get_ride_offers: at most 2 * limit active offers are read; those farther
\* from the destination than max_distance, or dearer than a given max_price,
\* are dropped; the rest is sorted by distance and one page of it returned.
\* max_price 0 stands for an absent or zero max_price (both are falsy).
get_ride_offers(rs, destination_lat, max_distance, max_price, page, limit) ==
    LET rides_docs == RidesQuery(rs, "offer", limit * 2)
        kept == SelectSeq(rides_docs,
                    LAMBDA id :
                        /\ ~(calculate_distance(destination_lat, rs[id].destination)
                                 > max_distance)
                        /\ ~(max_price # 0 /\ rs[id].price_per_seat > max_price))
        found == [i \in DOMAIN kept |-> RideEntry(rs, kept[i], destination_lat)]
        sorted == ListSort(found,
                           [i \in DOMAIN found |-> found[i].distance_to_destination])
    IN Page(sorted, page, limit)

\* get_ride_requests: the same over the active requests, dropping those whose
\* max_price_per_seat is below min_price.
get_ride_requests(rs, destination_lat, max_distance, min_price, page, limit) ==
    LET rides_docs == RidesQuery(rs, "request", limit * 2)
        kept == SelectSeq(rides_docs,
                    LAMBDA id :
                        /\ ~(calculate_distance(destination_lat, rs[id].destination)
                                 > max_distance)
                        /\ ~(rs[id].max_price_per_seat < min_price))
        found == [i \in DOMAIN kept |-> RideEntry(rs, kept[i], destination_lat)]
        sorted == ListSort(found,
                           [i \in DOMAIN found |-> found[i].distance_to_destination])
    IN Page(sorted, page, limit)

\* --------------------------------------- calculate_distance in fixed point

\* The Haversine formula of calculate_distance, line by line, in integer fixed
\* point.  Degrees are counted in 1/10000 degree, angles in microradians,
\* cosines in 1/10000, squares of sines in 10^-12, the result in metres.
\* Every intermediate value stays below 2^31 for points less than half a
\* degree apart; each division truncates, which costs less than 30 m here.

\* math.radians: pi / 180 = 0.017453 29...
radians(deg) == (deg * 1745) \div 1000 + (deg * 329) \div 1000000

\* math.sin of a small angle: x - x^3/6.
sin(x) == x - (((x * x) \div 1000000) * x) \div 6000000

\* math.cos: 1 - x^2/2 + x^4/24 - x^6/720 + x^8/40320.
cos(x) ==
    LET t2 == ((x \div 100) * (x \div 100)) \div 10000
        t4 == (t2 * t2) \div 10000
        t6 == (t4 * t2) \div 10000
        t8 == (t4 * t4) \div 10000
    IN 10000 - t2 \div 2 + t4 \div 24 - t6 \div 720 + t8 \div 40320

\* math.sqrt: the largest r in lo..hi with r * r <= n.
RECURSIVE SqrtIn(_, _, _)
SqrtIn(n, lo, hi) ==
    IF lo = hi THEN lo
    ELSE LET mid == (lo + hi + 1) \div 2
         IN IF mid * mid <= n THEN SqrtIn(n, mid, hi) ELSE SqrtIn(n, lo, mid - 1)

sqrt(n) == SqrtIn(n, 0, 46340)

\* math.atan2(y, x) for small y / x: r - r^3/3 with r = y / x.
atan2(y, x) ==
    LET r == (y * 10000) \div x
    IN r - (((r * r) \div 1000000) * r) \div 3000000

\* Mutant of calculate_distance_fixed: the cosine factors are left out.
calculate_distance_fixed_NoCos(lat1, lon1, lat2, lon2) ==
    LET dlat == radians(lat2 - lat1)
        dlon == radians(lon2 - lon1)
        a == sin(dlat \div 2) * sin(dlat \div 2)
                 + sin(dlon \div 2) * sin(dlon \div 2)
        c == 2 * atan2(sqrt(a), sqrt(100000000 - a \div 10000))
    IN (6371 * c) \div 1000

\* calculate_distance(lat1, lon1, lat2, lon2), in metres.
calculate_distance_fixed(lat1, lon1, lat2, lon2) ==
    LET dlat == radians(lat2 - lat1)
        dlon == radians(lon2 - lon1)
        a == sin(dlat \div 2) * sin(dlat \div 2)
                 + ((((sin(dlon \div 2) * sin(dlon \div 2)) \div 100)
                        * ((cos(radians(lat1)) * cos(radians(lat2))) \div 10000))
                    \div 100)
        c == 2 * atan2(sqrt(a), sqrt(100000000 - a \div 10000))
    IN (6371 * c) \div 1000

\* ---------------------------------------------------------- ConnectionManager

\* No read-only operation has answered yet.
NoResponse == [op |-> None]

\* ConnectionManager(): no connection, no location, no subscription.  The
\* dicts user_locations and subscriptions are kept as lists of entries in
\* insertion order, which is the order Python iterates them in.
ConnectionManager ==
    [active_connections |-> <<>>, user_locations |-> <<>>, subscriptions |-> <<>>]

\* The keys of a dict; its entries are records whose user_id is the key.
Keys(dict) == {dict[i].user_id : i \in DOMAIN dict}

\* dict[key] = ...: a present key keeps its place, a new one comes last.
DictStore(dict, entry) ==
    IF entry.user_id \in Keys(dict)
    THEN [i \in DOMAIN dict |->
             IF dict[i].user_id = entry.user_id THEN entry ELSE dict[i]]
    ELSE Append(dict, entry)

\* if key in dict: del dict[key]
DictDelete(dict, key) == SelectSeq(dict, LAMBDA e : e.user_id # key)

\* connect: the websocket becomes the user's connection.
connect(m, websocket, user_id) ==
    [m EXCEPT !.active_connections =
                  DictStore(@, [user_id |-> user_id, websocket |-> websocket])]

\* disconnect: the user's connection, location and subscriptions are removed.
disconnect(m, user_id) ==
    [active_connections |-> DictDelete(m.active_connections, user_id),
     user_locations |-> DictDelete(m.user_locations, user_id),
     subscriptions |-> DictDelete(m.subscriptions, user_id)]

\* subscribe_to_user: the target joins the subscriber's set.
subscribe_to_user(m, subscriber_id, target_user_id) ==
    LET old == IF subscriber_id \in Keys(m.subscriptions)
               THEN (CHOOSE e \in {m.subscriptions[i] : i \in DOMAIN m.subscriptions} :
                        e.user_id = subscriber_id).targets
               ELSE {}
    IN [m EXCEPT !.subscriptions =
                     DictStore(@, [user_id |-> subscriber_id,
                                   targets |-> old \cup {target_user_id}])]

\* _notify_subscribers from the i-th entry of subscriptions on.  A subscriber
\* of the user with a connection is sent the location; when the send raises,
\* _send_to_user disconnects the subscriber, which deletes the entry under
\* iteration, and the loop ends with RuntimeError (dictionary changed size
\* during iteration).  broken holds the users whose connection fails to send;
\* sent lists the subscribers the message went to.
RECURSIVE notify_subscribers(_, _, _, _)
notify_subscribers(m, user_id, broken, i) ==
    IF i > Len(m.subscriptions)
    THEN [m |-> m, result |-> "ok", sent |-> <<>>]
    ELSE LET subscriber_id == m.subscriptions[i].user_id
         IN IF /\ user_id \in m.subscriptions[i].targets
               /\ subscriber_id \in Keys(m.active_connections)
            THEN IF subscriber_id \in broken
                 THEN [m |-> disconnect(m, subscriber_id),
                       result |-> "runtime_error", sent |-> <<>>]
                 ELSE LET rest == notify_subscribers(m, user_id, broken, i + 1)
                      IN [rest EXCEPT !.sent = <<subscriber_id>> \o @]
            ELSE notify_subscribers(m, user_id, broken, i + 1)

\* update_location: store the user's location, then notify the subscribers.
update_location(m, user_id, latitude, broken) ==
    notify_subscribers(
        [m EXCEPT !.user_locations =
                      DictStore(@, [user_id |-> user_id, latitude |-> latitude])],
        user_id, broken, 1)

\* get_nearby_users: the other users with a location within radius_km, in the
\* order of user_locations, each with its distance.
get_nearby_users(m, user_id, latitude, radius_km) ==
    LET near == SelectSeq(m.user_locations,
                    LAMBDA location :
                        /\ location.user_id # user_id
                        /\ calculate_distance(latitude, location.latitude)
                               <= radius_km)
    IN [i \in DOMAIN near |->
           [user_id |-> near[i].user_id,
            distance_km |-> calculate_distance(latitude, near[i].latitude)]]

\* ------------------------------------------------------------ LocationService

\* What the places API answers: an error, or features, each with a center
\* (longitude, latitude) or with none.
Features ==
    {<<>>} \cup {<<[center |-> c]>> : c \in {<<>>} \cup {<<0, x>> : x \in Coords}}
           \cup {<<[center |-> <<0, x>>], [center |-> <<0, y>>]>> : x, y \in Coords}

ApiResponses == {[status |-> "error"]} \cup {[status |-> "ok", features |-> f] : f \in Features}

\* get_nearby_places: every feature with a center becomes a place with its
\* distance from the given point; the places are sorted by distance and the
\* first five returned.  radius is not used.  Any error gives the empty list.
get_nearby_places(latitude, radius, api_response) ==
    IF api_response.status = "error"
    THEN <<>>
    ELSE LET centered == SelectSeq(api_response.features,
                                   LAMBDA feature : Len(feature.center) >= 2)
             places == [i \in DOMAIN centered |->
                           [latitude |-> centered[i].center[2],
                            distance |-> calculate_distance(latitude,
                                                            centered[i].center[2])]]
         IN Slice(ListSort(places, [i \in DOMAIN places |-> places[i].distance]),
                  0, 5)

\* Two requests are in flight at once in Spec.
Slots == {1, 2}

\* A rides collection of offers of driver d1, created with the given seat
\* counts, all active.
InitialRides(capacity) ==
    [r \in DOMAIN capacity |->
        [user_id |-> "d1", driver_id |-> "d1",
         seats_available |-> capacity[r], status |-> "active"]]

\* The store holds a ride for each given seat count, no booking and no
\* notification.
InitWith(capacities) ==
    /\ \E capacity \in capacities :
          /\ rides = InitialRides(capacity)
          /\ created_seats = capacity
    /\ bookings = <<>>
    /\ notifications = EmptyBag
    /\ slots = [s \in Slots |-> IdleHandler]
    /\ nreq = 0
    /\ response = NoResponse
    /\ manager = ConnectionManager
    /\ endpoints = {}

\* The store after a step.
Store(db) ==
    /\ rides' = db.rides
    /\ bookings' = db.bookings
    /\ notifications' = db.notifications

\* The inputs of the requests.
SeatInputs == 1..MaxSeatsRequested
BookingInputs == 1..(Len(bookings) + 1)

\* ------------------------------------------- Spec: requests in flight together

\* One ride; two requests at a time, their store calls interleaved.
Init == InitWith([{"r1"} -> 0..MaxSeats])

\* A handler that has responded leaves its slot.
Settle(h) == IF h.pc = "done" THEN IdleHandler ELSE h

\* Slot s is the first slot with no request in flight.
FirstFree(s) ==
    /\ slots[s].pc = "idle"
    /\ \A t \in Slots : t < s => slots[t].pc # "idle"

\* The request h in slot s makes its next store call.
Advance(s, h) ==
    LET r == Step(DB, h)
    IN /\ Store(r.db)
       /\ slots' = [slots EXCEPT ![s] = Settle(r.h)]

\* A create_booking request arrives and reads the ride.
ReceiveCreate(s, ride_id, passenger_id, seats_requested) ==
    /\ nreq < MaxRequests
    /\ FirstFree(s)
    /\ Advance(s, CreateRequest(ride_id, passenger_id, seats_requested))
    /\ nreq' = nreq + 1
    /\ UNCHANGED <<created_seats, response, manager, endpoints>>

\* A handle_booking_action request arrives and reads the booking.
ReceiveAction(s, booking_id, action, actor_id) ==
    /\ nreq < MaxRequests
    /\ FirstFree(s)
    /\ Advance(s, ActionRequest(booking_id, action, actor_id))
    /\ nreq' = nreq + 1
    /\ UNCHANGED <<created_seats, response, manager, endpoints>>

\* The request in slot s makes the store call it is at.
CreateQueryStep(s) ==
    /\ slots[s].pc = "create_query"
    /\ Advance(s, slots[s])
    /\ UNCHANGED <<nreq, created_seats, response, manager, endpoints>>

CreateSetStep(s) ==
    /\ slots[s].pc = "create_set"
    /\ Advance(s, slots[s])
    /\ UNCHANGED <<nreq, created_seats, response, manager, endpoints>>

CreateNotifyStep(s) ==
    /\ slots[s].pc = "create_notify"
    /\ Advance(s, slots[s])
    /\ UNCHANGED <<nreq, created_seats, response, manager, endpoints>>

AcceptRideGetStep(s) ==
    /\ slots[s].pc = "accept_ride_get"
    /\ Advance(s, slots[s])
    /\ UNCHANGED <<nreq, created_seats, response, manager, endpoints>>

AcceptRideUpdateStep(s) ==
    /\ slots[s].pc = "accept_ride_update"
    /\ Advance(s, slots[s])
    /\ UNCHANGED <<nreq, created_seats, response, manager, endpoints>>

AcceptUpdateStep(s) ==
    /\ slots[s].pc = "accept_update"
    /\ Advance(s, slots[s])
    /\ UNCHANGED <<nreq, created_seats, response, manager, endpoints>>

AcceptNotifyStep(s) ==
    /\ slots[s].pc = "accept_notify"
    /\ Advance(s, slots[s])
    /\ UNCHANGED <<nreq, created_seats, response, manager, endpoints>>

RejectUpdateStep(s) ==
    /\ slots[s].pc = "reject_update"
    /\ Advance(s, slots[s])
    /\ UNCHANGED <<nreq, created_seats, response, manager, endpoints>>

RejectNotifyStep(s) ==
    /\ slots[s].pc = "reject_notify"
    /\ Advance(s, slots[s])
    /\ UNCHANGED <<nreq, created_seats, response, manager, endpoints>>

CancelRideGetStep(s) ==
    /\ slots[s].pc = "cancel_ride_get"
    /\ Advance(s, slots[s])
    /\ UNCHANGED <<nreq, created_seats, response, manager, endpoints>>

CancelRideUpdateStep(s) ==
    /\ slots[s].pc = "cancel_ride_update"
    /\ Advance(s, slots[s])
    /\ UNCHANGED <<nreq, created_seats, response, manager, endpoints>>

CancelUpdateStep(s) ==
    /\ slots[s].pc = "cancel_update"
    /\ Advance(s, slots[s])
    /\ UNCHANGED <<nreq, created_seats, response, manager, endpoints>>

CancelNotifyStep(s) ==
    /\ slots[s].pc = "cancel_notify"
    /\ Advance(s, slots[s])
    /\ UNCHANGED <<nreq, created_seats, response, manager, endpoints>>


Next ==
    \E s \in Slots :
        \/ \E ride_id \in DOMAIN rides, passenger_id \in Users,
              seats_requested \in SeatInputs :
              ReceiveCreate(s, ride_id, passenger_id, seats_requested)
        \/ \E booking_id \in BookingInputs,
              action \in {"accept", "reject", "cancel"}, actor_id \in Users :
              ReceiveAction(s, booking_id, action, actor_id)
        \/ CreateQueryStep(s)
        \/ CreateSetStep(s)
        \/ CreateNotifyStep(s)
        \/ AcceptRideGetStep(s)
        \/ AcceptRideUpdateStep(s)
        \/ AcceptUpdateStep(s)
        \/ AcceptNotifyStep(s)
        \/ RejectUpdateStep(s)
        \/ RejectNotifyStep(s)
        \/ CancelRideGetStep(s)
        \/ CancelRideUpdateStep(s)
        \/ CancelUpdateStep(s)
        \/ CancelNotifyStep(s)

Spec == Init /\ [][Next]_vars

\* --------------------------------------------- SpecSeq: one request at a time

\* Two rides, r1 created with any seat count and r2 with one seat; each
\* request runs from its first store call to its response before the next
\* request arrives.
InitSeq == InitWith({c \in [RideIds -> 0..MaxSeats] : c["r2"] = 1})

\* A whole request r (the store after it and its handler record at the
\* response): the store takes its writes and no handler stays in flight.
Respond(r) ==
    /\ nreq < MaxRequests
    /\ r.h.pc = "done"
    /\ Store(r.db)
    /\ nreq' = nreq + 1
    /\ UNCHANGED <<slots, created_seats, response, manager, endpoints>>

CreateBooking(ride_id, passenger_id, seats_requested) ==
    Respond(create_booking(DB, ride_id, passenger_id, seats_requested))

HandleBookingAction(booking_id, action, actor_id) ==
    Respond(handle_booking_action(DB, booking_id, action, actor_id))

NextSeq ==
    \/ \E ride_id \in RideIds \cup {NoRide}, passenger_id \in Users \cup {Ghost},
          seats_requested \in SeatInputs :
          CreateBooking(ride_id, passenger_id, seats_requested)
    \/ \E booking_id \in BookingInputs, action \in ActionTokens,
          actor_id \in Users :
          HandleBookingAction(booking_id, action, actor_id)

SpecSeq == InitSeq /\ [][NextSeq]_vars

\* ------------------------------- SpecRides: SpecSeq with the ride operations

\* Bodies of update_ride requests: a seat count, a status, a null field.
UpdateInputs ==
    {[seats_available |-> JInt(n)] : n \in (0 - 1)..(MaxSeats + 1)}
        \cup {[status |-> JStr(x)] : x \in {"completed", "cancelled"}}
        \cup {[seats_available |-> JNull]}

UpdateRide(ride_id, ride_update, user_id) ==
    Respond(update_ride(DB, ride_id, ride_update, user_id))

CancelRide(ride_id, user_id) ==
    Respond(cancel_ride(DB, ride_id, user_id))

NextRides ==
    \/ NextSeq
    \/ \E ride_id \in RideIds \cup {NoRide}, ride_update \in UpdateInputs,
          user_id \in Users :
          UpdateRide(ride_id, ride_update, user_id)
    \/ \E ride_id \in RideIds \cup {NoRide}, user_id \in Users :
          CancelRide(ride_id, user_id)

SpecRides == InitSeq /\ [][NextRides]_vars

\* ----------------------------------------------- SpecChat: SpecSeq with chat

\* send_message: 404 for an unknown sender or ride, 400 for a ride that is not
\* active; the sender must be the ride's driver or have a booking on the ride
\* whose status is "confirmed"; then the message document is written.
send_message(db, ride_id, sender_id) ==
    IF sender_id \notin Users
    THEN [result |-> "sender_not_found", message_doc |-> <<>>]
    ELSE IF ride_id \notin DOMAIN db.rides
    THEN [result |-> "ride_not_found", message_doc |-> <<>>]
    ELSE LET ride_data == db.rides[ride_id]
         IN IF ride_data.status # "active"
            THEN [result |-> "ride_not_active", message_doc |-> <<>>]
            ELSE IF "driver_id" \notin DOMAIN ride_data
            THEN [result |-> "internal_error", message_doc |-> <<>>]
            ELSE LET is_driver == ride_data.driver_id = sender_id
                     booking_doc ==
                         {b \in DOMAIN db.bookings :
                             /\ db.bookings[b].ride_id = ride_id
                             /\ db.bookings[b].passenger_id = sender_id
                             /\ db.bookings[b].status = "confirmed"}
                 IN IF ~is_driver /\ booking_doc = {}
                    THEN [result |-> "forbidden", message_doc |-> <<>>]
                    ELSE [result |-> "ok",
                          message_doc |-> [ride_id |-> ride_id,
                                           sender_id |-> sender_id,
                                           is_from_driver |-> is_driver]]

\* A send_message request and its answer.
SendMessage(ride_id, sender_id) ==
    /\ response' = [op |-> "send_message", ride_id |-> ride_id,
                    sender_id |-> sender_id,
                    result |-> send_message(DB, ride_id, sender_id)]
    /\ UNCHANGED <<rides, bookings, notifications, slots, nreq, created_seats,
                   manager, endpoints>>

NextChat ==
    \/ NextSeq
    \/ \E ride_id \in RideIds \cup {NoRide}, sender_id \in Users \cup {Ghost} :
          SendMessage(ride_id, sender_id)

SpecChat == InitSeq /\ [][NextChat]_vars

\* ------------------- SpecRideRace: update_ride and cancel_ride interleaved

\* An update_ride request arrives and reads the ride.
ReceiveUpdateRide(s, ride_id, ride_update, user_id) ==
    /\ nreq < MaxRequests
    /\ FirstFree(s)
    /\ Advance(s, [IdleHandler EXCEPT !.pc = "update_ride_get",
                                      !.op = "update_ride",
                                      !.ride_id = ride_id,
                                      !.actor_id = user_id,
                                      !.ride_update = ride_update])
    /\ nreq' = nreq + 1
    /\ UNCHANGED <<created_seats, response, manager, endpoints>>

\* A cancel_ride request arrives and reads the ride.
ReceiveCancelRide(s, ride_id, user_id) ==
    /\ nreq < MaxRequests
    /\ FirstFree(s)
    /\ Advance(s, [IdleHandler EXCEPT !.pc = "ride_cancel_get",
                                      !.op = "cancel_ride",
                                      !.ride_id = ride_id,
                                      !.actor_id = user_id])
    /\ nreq' = nreq + 1
    /\ UNCHANGED <<created_seats, response, manager, endpoints>>

\* The update_ride request in slot s writes its fields.
UpdateRideWriteStep(s) ==
    /\ slots[s].pc = "update_ride_write"
    /\ Advance(s, slots[s])
    /\ UNCHANGED <<nreq, created_seats, response, manager, endpoints>>

\* The cancel_ride request in slot s writes status cancelled.
CancelRideWriteStep(s) ==
    /\ slots[s].pc = "ride_cancel_write"
    /\ Advance(s, slots[s])
    /\ UNCHANGED <<nreq, created_seats, response, manager, endpoints>>

NextRideRace ==
    \E s \in Slots :
        \/ \E ride_id \in DOMAIN rides \cup {NoRide},
              ride_update \in UpdateInputs, user_id \in Users :
              ReceiveUpdateRide(s, ride_id, ride_update, user_id)
        \/ \E ride_id \in DOMAIN rides \cup {NoRide}, user_id \in Users :
              ReceiveCancelRide(s, ride_id, user_id)
        \/ UpdateRideWriteStep(s)
        \/ CancelRideWriteStep(s)

SpecRideRace == Init /\ [][NextRideRace]_vars

\* ------------------------------------------------------------------ helpers

RECURSIVE SeatsOfAccepted(_, _, _)
\* The seats_booked of the accepted bookings on ride_id among bs[1..n], summed.
SeatsOfAccepted(bs, ride_id, n) ==
    IF n = 0 THEN 0
    ELSE (IF bs[n].ride_id = ride_id /\ bs[n].status = "accepted"
          THEN bs[n].seats_booked ELSE 0)
         + SeatsOfAccepted(bs, ride_id, n - 1)

RECURSIVE SeatsOfPending(_, _, _)
\* The seats_booked of the pending bookings on ride_id among bs[1..n], summed.
SeatsOfPending(bs, ride_id, n) ==
    IF n = 0 THEN 0
    ELSE (IF bs[n].ride_id = ride_id /\ bs[n].status = "pending"
          THEN bs[n].seats_booked ELSE 0)
         + SeatsOfPending(bs, ride_id, n - 1)

\* Notifications of the given type about the given booking.
Notified(type, booking_id) ==
    {d \in BagToSet(notifications) : d.type = type /\ d.booking_id = booking_id}

\* ------- SpecCrash: one request at a time, whose process may stop at any call

\* The process serving the request of slot s stops: the handler makes no
\* further store call and sends no response.
Crash(s) ==
    /\ slots[s].pc # "idle"
    /\ slots' = [slots EXCEPT ![s] = IdleHandler]
    /\ UNCHANGED <<rides, bookings, notifications, nreq, created_seats,
                   response, manager, endpoints>>

\* A request is received only when no other is being served.
OneAtATime == (\A s \in Slots : slots[s].pc = "idle") \/ nreq' = nreq

NextCrash ==
    \/ Next /\ OneAtATime
    \/ \E s \in Slots : Crash(s)

SpecCrash == Init /\ [][NextCrash]_vars

\* ------------ SpecFail: SpecSeq with requests whose notification write raises

CreateBookingNotifyFails(ride_id, passenger_id, seats_requested) ==
    Respond(Run(DB, WithNotifyFailure(
                        CreateRequest(ride_id, passenger_id, seats_requested))))

HandleBookingActionNotifyFails(booking_id, action, actor_id) ==
    Respond(Run(DB, WithNotifyFailure(
                        ActionRequest(booking_id, action, actor_id))))

NextFail ==
    \/ NextSeq
    \/ \E ride_id \in RideIds, passenger_id \in Users,
          seats_requested \in SeatInputs :
          CreateBookingNotifyFails(ride_id, passenger_id, seats_requested)
    \/ \E booking_id \in BookingInputs, action \in {"accept", "reject", "cancel"},
          actor_id \in Users :
          HandleBookingActionNotifyFails(booking_id, action, actor_id)

SpecFail == InitSeq /\ [][NextFail]_vars

\* ---------------------- SpecOffer: rides are created through create_ride_offer

\* No ride yet.
InitOffer ==
    /\ rides = [r \in {} |-> None]
    /\ created_seats = [r \in {} |-> 0]
    /\ bookings = <<>>
    /\ notifications = EmptyBag
    /\ slots = [s \in Slots |-> IdleHandler]
    /\ nreq = 0
    /\ response = NoResponse
    /\ manager = ConnectionManager
    /\ endpoints = {}

\* What the location service answers for the caller's coordinates.
Locations == {"addr", None}

CreateRideOffer(seats_available, user_id, current_location) ==
    /\ nreq < MaxRequests
    /\ DOMAIN rides # RideIds
    /\ LET r == create_ride_offer(DB, seats_available, user_id, current_location)
       IN /\ Store(r.db)
          /\ created_seats' = [id \in DOMAIN r.db.rides |->
                                  IF id \in DOMAIN rides THEN created_seats[id]
                                  ELSE seats_available]
    /\ nreq' = nreq + 1
    /\ UNCHANGED <<slots, response, manager, endpoints>>

NextOffer ==
    \/ \E seats_available \in 0..MaxSeats, user_id \in Users \cup {Ghost},
          current_location \in Locations :
          CreateRideOffer(seats_available, user_id, current_location)
    \/ \E ride_id \in RideIds, passenger_id \in Users,
          seats_requested \in SeatInputs :
          CreateBooking(ride_id, passenger_id, seats_requested)
    \/ \E booking_id \in BookingInputs, action \in {"accept", "reject", "cancel"},
          actor_id \in Users :
          HandleBookingAction(booking_id, action, actor_id)

SpecOffer == InitOffer /\ [][NextOffer]_vars

\* ----------------- SpecSearch: a ride-discovery query on a store of three rides

\* The ride documents create_ride_offer and create_ride_request write, with
\* their later status.
SearchDocs ==
    {[user_id |-> "d1", ride_type |-> "offer", destination |-> x,
      seats_available |-> 1, price_per_seat |-> p, status |-> st] :
        x \in Coords, p \in {1, 2}, st \in {"active"}}
    \cup {[user_id |-> "d1", ride_type |-> "offer", destination |-> x,
           seats_available |-> 1, price_per_seat |-> 1, status |-> "cancelled"] :
        x \in Coords}
    \cup {[user_id |-> "p1", ride_type |-> "request", destination |-> x,
           seats_needed |-> 1, max_price_per_seat |-> 1, status |-> "active"] :
        x \in Coords}

InitSearch ==
    /\ rides \in [{SearchOrder[i] : i \in DOMAIN SearchOrder} -> SearchDocs]
    /\ created_seats = [r \in {} |-> 0]
    /\ bookings = <<>>
    /\ notifications = EmptyBag
    /\ slots = [s \in Slots |-> IdleHandler]
    /\ nreq = 0
    /\ response = NoResponse
    /\ manager = ConnectionManager
    /\ endpoints = {}

\* The answer to a query, with the query.
Answer(op, destination_lat, max_distance, price, result) ==
    /\ response = NoResponse
    /\ response' = [op |-> op, destination_lat |-> destination_lat,
                    max_distance |-> max_distance, price |-> price,
                    result |-> result]
    /\ UNCHANGED <<rides, bookings, notifications, slots, nreq, created_seats,
                   manager, endpoints>>

GetRideOffers(destination_lat, max_distance, max_price, page, limit) ==
    Answer("get_ride_offers", destination_lat, max_distance, max_price,
           get_ride_offers(rides, destination_lat, max_distance, max_price,
                           page, limit))

GetRideRequests(destination_lat, max_distance, min_price, page, limit) ==
    Answer("get_ride_requests", destination_lat, max_distance, min_price,
           get_ride_requests(rides, destination_lat, max_distance, min_price,
                             page, limit))

NextSearch ==
    \E destination_lat \in Coords, max_distance \in 1..MaxCoord,
       page \in {1, 2}, limit \in 1..MaxLimit :
        \/ \E max_price \in {0, 1} :
              GetRideOffers(destination_lat, max_distance, max_price, page, limit)
        \/ \E min_price \in {0, 2} :
              GetRideRequests(destination_lat, max_distance, min_price, page, limit)

SpecSearch == InitSearch /\ [][NextSearch]_vars

\* ------------------------ SpecNearby: the connection manager and the searches

InitNearby ==
    /\ rides = [r \in {} |-> None]
    /\ created_seats = [r \in {} |-> 0]
    /\ bookings = <<>>
    /\ notifications = EmptyBag
    /\ slots = [s \in Slots |-> IdleHandler]
    /\ nreq = 0
    /\ response = NoResponse
    /\ manager = ConnectionManager
    /\ endpoints = {}

\* A call on the manager that leaves it as m.
Manage(m) ==
    /\ nreq < MaxRequests
    /\ nreq' = nreq + 1
    /\ manager' = m
    /\ UNCHANGED <<rides, bookings, notifications, slots, created_seats, response, endpoints>>

\* The answer to a search, with its arguments.
Found(op, latitude, radius, result) ==
    /\ nreq < MaxRequests
    /\ nreq' = nreq + 1
    /\ response' = [op |-> op, latitude |-> latitude, radius |-> radius,
                    result |-> result]
    /\ UNCHANGED <<rides, bookings, notifications, slots, created_seats, manager, endpoints>>

Connect(websocket, user_id) == Manage(connect(manager, websocket, user_id))

Disconnect(user_id) == Manage(disconnect(manager, user_id))

SubscribeToUser(subscriber_id, target_user_id) ==
    Manage(subscribe_to_user(manager, subscriber_id, target_user_id))

UpdateLocation(user_id, latitude, broken) ==
    Manage(update_location(manager, user_id, latitude, broken).m)

GetNearbyUsers(user_id, latitude, radius_km) ==
    Found("get_nearby_users", latitude, radius_km,
          get_nearby_users(manager, user_id, latitude, radius_km))

GetNearbyPlaces(latitude, radius, api_response) ==
    Found("get_nearby_places", latitude, radius,
          get_nearby_places(latitude, radius, api_response))

NextNearby ==
    \/ \E user_id \in Users : Connect("w1", user_id)
    \/ \E user_id \in Users : Disconnect(user_id)
    \/ \E subscriber_id, target_user_id \in Users :
          SubscribeToUser(subscriber_id, target_user_id)
    \/ \E user_id \in Users, latitude \in Coords,
          broken \in {{}} \cup {{u} : u \in Users} :
          UpdateLocation(user_id, latitude, broken)
    \/ \E user_id \in Users, latitude \in Coords, radius_km \in 1..MaxCoord :
          GetNearbyUsers(user_id, latitude, radius_km)
    \/ \E latitude \in Coords, radius \in 1..MaxCoord,
          api_response \in ApiResponses :
          GetNearbyPlaces(latitude, radius, api_response)

SpecNearby == InitNearby /\ [][NextNearby]_vars

\* --------------------- SpecDistance: calculate_distance on points around Delhi

\* Latitudes and longitudes in 1/10000 degree; among them the two landmarks
\* (28.6139, 77.2090) and (28.7041, 77.1025).
Latitudes == {286139, 286500, 287041, 287500}
Longitudes == {771025, 771500, 772090, 772500}

InitDistance ==
    /\ rides = [r \in {} |-> None]
    /\ created_seats = [r \in {} |-> 0]
    /\ bookings = <<>>
    /\ notifications = EmptyBag
    /\ slots = [s \in Slots |-> IdleHandler]
    /\ nreq = 0
    /\ response = NoResponse
    /\ manager = ConnectionManager
    /\ endpoints = {}

CalculateDistance(lat1, lon1, lat2, lon2) ==
    /\ response' = [op |-> "calculate_distance", lat1 |-> lat1, lon1 |-> lon1,
                    lat2 |-> lat2, lon2 |-> lon2,
                    result |-> calculate_distance_fixed(lat1, lon1, lat2, lon2)]
    /\ UNCHANGED <<rides, bookings, notifications, slots, nreq, created_seats,
                   manager, endpoints>>

NextDistance ==
    \E lat1, lat2 \in Latitudes, lon1, lon2 \in Longitudes :
        CalculateDistance(lat1, lon1, lat2, lon2)

SpecDistance == InitDistance /\ [][NextDistance]_vars

\* --------------- SpecSockets: the WebSocket endpoint over the manager

\* The websockets a client may open.
WebSockets == {"w1", "w2"}

\* dict.get(key): the entry of the key, or None.
Entry(dict, key) ==
    IF key \in Keys(dict)
    THEN CHOOSE e \in {dict[i] : i \in DOMAIN dict} : e.user_id = key
    ELSE [user_id |-> None]

\* websocket_location_tracking starts: the manager registers the websocket
\* under the user_id of the path, and the handler waits for messages.
OpenWebSocket(websocket, user_id) ==
    /\ nreq < MaxRequests
    /\ \A e \in endpoints : e.websocket # websocket
    /\ manager' = connect(manager, websocket, user_id)
    /\ endpoints' = endpoints \cup {[websocket |-> websocket, user_id |-> user_id]}
    /\ nreq' = nreq + 1
    /\ UNCHANGED <<rides, bookings, notifications, slots, created_seats, response>>

\* The handler e receives a location_update message.
ReceiveLocationUpdate(e, latitude) ==
    /\ nreq < MaxRequests
    /\ e \in endpoints
    /\ manager' = update_location(manager, e.user_id, latitude, {}).m
    /\ nreq' = nreq + 1
    /\ UNCHANGED <<rides, bookings, notifications, slots, created_seats, response,
                   endpoints>>

\* The handler e receives a subscribe message.
ReceiveSubscribe(e, target_user_id) ==
    /\ nreq < MaxRequests
    /\ e \in endpoints
    /\ manager' = subscribe_to_user(manager, e.user_id, target_user_id)
    /\ nreq' = nreq + 1
    /\ UNCHANGED <<rides, bookings, notifications, slots, created_seats, response,
                   endpoints>>

\* The websocket of handler e closes: receive_text raises WebSocketDisconnect
\* and the handler calls disconnect with its user_id, then ends.
WebSocketDisconnect(e) ==
    /\ e \in endpoints
    /\ manager' = disconnect(manager, e.user_id)
    /\ endpoints' = endpoints \ {e}
    /\ UNCHANGED <<rides, bookings, notifications, slots, nreq, created_seats,
                   response>>

NextSockets ==
    \/ \E websocket \in WebSockets, user_id \in Users :
          OpenWebSocket(websocket, user_id)
    \/ \E e \in endpoints, latitude \in Coords : ReceiveLocationUpdate(e, latitude)
    \/ \E e \in endpoints, target_user_id \in Users :
          ReceiveSubscribe(e, target_user_id)
    \/ \E e \in endpoints : WebSocketDisconnect(e)

SpecSockets == InitNearby /\ [][NextSockets]_vars

\* ------------------------------------------------------------------- claims

\* C1: under any interleaving of the store calls of create_booking and
\* handle_booking_action, no ride's seats_available is ever negative.
C1_SeatsNeverNegative ==
    \A r \in DOMAIN rides : rides[r].seats_available >= 0

\* C1 witness: two racing accepts have both been committed on a ride that had
\* fewer seats than the two bookings together, and the count stands at zero.
C1_Witness ==
    \E r \in DOMAIN rides :
        /\ SeatsOfAccepted(bookings, r, Len(bookings)) > created_seats[r]
        /\ rides[r].seats_available = 0

\* C2: a ride's seats_available never exceeds the seat count it was created
\* with, under any interleaving (two concurrent cancels included).
C2_SeatsAtMostCreated ==
    \A r \in DOMAIN rides : rides[r].seats_available <= created_seats[r]

\* C3: the seats of the accepted bookings of a ride never add up to more than
\* the seat count the ride was created with, concurrent accepts included.
C3_AcceptedWithinCapacity ==
    \A r \in DOMAIN rides :
        SeatsOfAccepted(bookings, r, Len(bookings)) <= created_seats[r]

\* C4: once a booking's stored status is rejected or cancelled, no step of any
\* request changes the booking document again.
C4_TerminalIsSink ==
    [][\A b \in DOMAIN bookings :
          bookings[b].status \in {"rejected", "cancelled"}
              => bookings'[b] = bookings[b]]_vars

\* C5: for every ride and passenger at most one booking is pending or
\* accepted, concurrent create_booking requests included.
C5_OneActiveBooking ==
    \A r \in DOMAIN rides, p \in Users :
        Cardinality(ExistingBookings(DB, r, p)) <= 1

\* C6: an accept of booking b that succeeds found b pending with n seats on a
\* ride with s >= n seats, and leaves that ride with s - n seats and b
\* accepted; no other ride and no other booking changes.
C6_AcceptEffect ==
    \A b \in DOMAIN bookings, token \in {"accept", "Accept"}, u \in Users :
        LET r == handle_booking_action(DB, b, token, u)
            ride_id == bookings[b].ride_id
            n == bookings[b].seats_booked
            s == rides[ride_id].seats_available
        IN r.h.result = "ok" =>
              /\ bookings[b].status = "pending"
              /\ s >= n
              /\ r.db.rides[ride_id]
                     = [rides[ride_id] EXCEPT !.seats_available = s - n]
              /\ \A x \in DOMAIN rides \ {ride_id} : r.db.rides[x] = rides[x]
              /\ DOMAIN r.db.rides = DOMAIN rides
              /\ r.db.bookings[b] = [bookings[b] EXCEPT !.status = "accepted"]
              /\ DOMAIN r.db.bookings = DOMAIN bookings
              /\ \A c \in DOMAIN bookings \ {b} : r.db.bookings[c] = bookings[c]

\* C6 witness: a booking of two seats stands accepted on a ride created with
\* two seats, which has none left, while the other ride is as created.
C6_Witness ==
    \E b \in DOMAIN bookings :
        /\ bookings[b].status = "accepted"
        /\ bookings[b].seats_booked = MaxSeatsRequested
        /\ created_seats[bookings[b].ride_id] = MaxSeatsRequested
        /\ rides[bookings[b].ride_id].seats_available = 0
        /\ \A r \in DOMAIN rides \ {bookings[b].ride_id} :
              rides[r].seats_available = created_seats[r]

\* C7: round trip.  For every pending booking whose accept by the driver
\* succeeds, a cancel of it right after the accept, by the passenger or by the
\* driver, succeeds and leaves the ride's seats_available as it was before the
\* accept.
C7_RoundTrip ==
    \A b \in DOMAIN bookings :
        bookings[b].status = "pending" =>
            LET ride_id == bookings[b].ride_id
                a == handle_booking_action(DB, b, "accept", bookings[b].driver_id)
            IN a.h.result = "ok" =>
                  /\ a.db.rides[ride_id].seats_available
                         = rides[ride_id].seats_available - bookings[b].seats_booked
                  /\ \A canceller \in {bookings[b].passenger_id,
                                       bookings[b].driver_id} :
                        LET c == handle_booking_action(a.db, b, "cancel", canceller)
                        IN /\ c.h.result = "ok"
                           /\ c.db.bookings[b].status = "cancelled"
                           /\ c.db.rides[ride_id].seats_available
                                  = rides[ride_id].seats_available

\* C7 witness: a booking of two seats has been accepted and then cancelled (both
\* notifications are stored) and its ride has the seats it was created with.
C7_Witness ==
    \E b \in DOMAIN bookings :
        /\ bookings[b].status = "cancelled"
        /\ bookings[b].seats_booked = MaxSeatsRequested
        /\ Notified("booking_accepted", b) # {}
        /\ Notified("booking_cancelled", b) # {}
        /\ rides[bookings[b].ride_id].seats_available
               = created_seats[bookings[b].ride_id]

\* C8: an accept by the driver of a pending booking whose seats_booked exceeds
\* the ride's seats_available fails with the capacity error and writes
\* nothing: booking, ride and notifications are as before.
C8_CapacityError ==
    \A b \in DOMAIN bookings :
        (/\ bookings[b].status = "pending"
         /\ bookings[b].seats_booked > rides[bookings[b].ride_id].seats_available)
        => LET r == handle_booking_action(DB, b, "accept", bookings[b].driver_id)
           IN /\ r.h.result = "not_enough_seats"
              /\ r.db.bookings = bookings
              /\ r.db.rides = rides
              /\ r.db.notifications = notifications

\* C8 witness: the scenario.  On a ride created with 2 seats, A's booking of 2
\* is accepted, B's booking of 1 is pending, no seat is left, and the accept of
\* B's booking is refused with the capacity error.
C8_Witness ==
    \E a, b \in DOMAIN bookings :
        /\ bookings[a].ride_id = bookings[b].ride_id
        /\ created_seats[bookings[a].ride_id] = 2
        /\ bookings[a].seats_booked = 2 /\ bookings[a].status = "accepted"
        /\ bookings[b].seats_booked = 1 /\ bookings[b].status = "pending"
        /\ rides[bookings[a].ride_id].seats_available = 0
        /\ Notified("booking_accepted", b) = {}
        /\ handle_booking_action(DB, b, "accept", bookings[b].driver_id).h.result
               = "not_enough_seats"

\* C9: a create_booking that succeeds appends exactly one booking, pending,
\* for the requested ride, passenger and seats (at most the ride's
\* seats_available), and changes no other booking and no ride (seats_available
\* in particular).
C9_CreateEffect ==
    \A ride_id \in RideIds \cup {NoRide}, p \in Users \cup {Ghost},
       n \in SeatInputs :
        LET r == create_booking(DB, ride_id, p, n)
            new == Len(bookings) + 1
        IN r.h.result = "ok" =>
              /\ Len(r.db.bookings) = new
              /\ r.db.bookings[new].status = "pending"
              /\ r.db.bookings[new].ride_id = ride_id
              /\ r.db.bookings[new].passenger_id = p
              /\ r.db.bookings[new].seats_booked = n
              /\ n <= rides[ride_id].seats_available
              /\ \A b \in DOMAIN bookings : r.db.bookings[b] = bookings[b]
              /\ r.db.rides = rides

\* C9 witness: the pending bookings of a ride ask for more seats together than
\* the ride has, each of them for no more than it has, and the ride still has
\* the seats it was created with.
C9_Witness ==
    \E r \in DOMAIN rides :
        /\ SeatsOfPending(bookings, r, Len(bookings)) > rides[r].seats_available
        /\ \A b \in DOMAIN bookings :
              bookings[b].ride_id = r /\ bookings[b].status = "pending"
                  => bookings[b].seats_booked <= rides[r].seats_available
        /\ rides[r].seats_available = created_seats[r]

\* C10: a step changes a ride's seats_available only if it is an accept
\* (decrease) or a cancel of an accepted booking (increase) of a booking on
\* that ride; no other operation changes it.
C10_OnlyAcceptAndCancel ==
    [][\A r \in DOMAIN rides :
          rides'[r].seats_available # rides[r].seats_available
          => \E b \in DOMAIN bookings, token \in ActionTokens, u \in Users :
                /\ HandleBookingAction(b, token, u)
                /\ bookings[b].ride_id = r
                /\ \/ /\ Lower(token) = "accept"
                      /\ rides'[r].seats_available < rides[r].seats_available
                   \/ /\ Lower(token) = "cancel"
                      /\ bookings[b].status = "accepted"
                      /\ rides'[r].seats_available > rides[r].seats_available]_vars

\* C11: on a ride whose status is completed or cancelled no create_booking
\* succeeds or adds a booking, and no accept or cancel of a booking on it
\* changes its seats_available.
C11_NoBookingOnClosedRide ==
    \A r \in DOMAIN rides :
        rides[r].status \in {"completed", "cancelled"}
        => /\ \A p \in Users, n \in SeatInputs :
                LET c == create_booking(DB, r, p, n)
                IN /\ c.h.result # "ok"
                   /\ c.db.bookings = bookings
           /\ \A b \in DOMAIN bookings, token \in {"accept", "cancel"},
                 u \in Users :
                bookings[b].ride_id = r
                => handle_booking_action(DB, b, token, u).db.rides[r].seats_available
                       = rides[r].seats_available

\* The request is an accept or reject by someone other than the booking's
\* driver, or a cancel by someone who is neither its passenger nor its driver.
Unauthorized(b, token, u) ==
    \/ /\ Lower(token) \in {"accept", "reject"}
       /\ u # bookings[b].driver_id
    \/ /\ Lower(token) = "cancel"
       /\ u \notin {bookings[b].passenger_id, bookings[b].driver_id}

\* The request fails with the given error and writes nothing.
RefusedWith(b, token, u, error) ==
    LET r == handle_booking_action(DB, b, token, u)
    IN /\ r.h.result = error
       /\ r.db = DB

\* C12 as stated: every accept or reject by an actor other than the booking's
\* driver_id, and every cancel by an actor who is neither its passenger_id nor
\* its driver_id, fails with the forbidden error and leaves booking, ride and
\* notifications unchanged.
C12_ForbiddenAlways ==
    \A b \in DOMAIN bookings, token \in ActionTokens, u \in Users :
        Unauthorized(b, token, u) => RefusedWith(b, token, u, "forbidden")

\* C12 amended: such a request on a pending or accepted booking fails with the
\* forbidden error; on a rejected or cancelled booking it fails with the
\* cannot-modify error, because the status check precedes the actor check; in
\* both cases booking, ride and notifications are unchanged.
C12_ForbiddenWhileOpen ==
    \A b \in DOMAIN bookings, token \in ActionTokens, u \in Users :
        Unauthorized(b, token, u)
        => IF bookings[b].status \in {"pending", "accepted"}
           THEN RefusedWith(b, token, u, "forbidden")
           ELSE RefusedWith(b, token, u, "cannot_modify")

\* C12 witness: an accepted booking stands whose cancel by a third user and
\* whose accept by its passenger are both refused as forbidden, next to a
\* rejected booking whose accept by a passenger is refused as cannot-modify.
C12_Witness ==
    \E a, b \in DOMAIN bookings :
        /\ bookings[a].status = "accepted"
        /\ bookings[b].status = "rejected"
        /\ \E u \in Users \ {bookings[a].passenger_id, bookings[a].driver_id} :
              RefusedWith(a, "cancel", u, "forbidden")
        /\ RefusedWith(a, "accept", bookings[a].passenger_id, "forbidden")
        /\ RefusedWith(b, "accept", bookings[b].passenger_id, "cannot_modify")

\* C13: on rides created through create_ride_offer, every booking's stored
\* driver_id is the owner (user_id) of its ride; the owner is refused when
\* booking the own ride; and the owner's accept and reject of a pending
\* booking are not refused as forbidden.
C13_DriverIsOwner ==
    /\ \A b \in DOMAIN bookings :
          /\ bookings[b].driver_id = rides[bookings[b].ride_id].user_id
          /\ bookings[b].status = "pending"
             => \A token \in {"accept", "reject"} :
                   handle_booking_action(DB, b, token,
                                         rides[bookings[b].ride_id].user_id).h.result
                       # "forbidden"
    /\ \A r \in DOMAIN rides, n \in SeatInputs :
          create_booking(DB, r, rides[r].user_id, n).h.result # "ok"

\* C14: a create, accept, reject or cancel that succeeds when its notification
\* write succeeds also reports success, with the same bookings and rides
\* stored, when its notification write raises.
C14_NotifyFailureIsTolerated ==
    /\ \A r \in DOMAIN rides, p \in Users, n \in SeatInputs :
          LET req == CreateRequest(r, p, n)
              good == Run(DB, req)
              bad == Run(DB, WithNotifyFailure(req))
          IN good.h.result = "ok"
             => /\ bad.h.result = "ok"
                /\ bad.db.bookings = good.db.bookings
                /\ bad.db.rides = good.db.rides
    /\ \A b \in DOMAIN bookings, token \in ActionTokens, u \in Users :
          LET req == ActionRequest(b, token, u)
              good == Run(DB, req)
              bad == Run(DB, WithNotifyFailure(req))
          IN good.h.result = "ok"
             => /\ bad.h.result = "ok"
                /\ bad.db.bookings = good.db.bookings
                /\ bad.db.rides = good.db.rides

\* C15: accept makes two separate writes, the ride's seat count first and the
\* booking's status second.  The first write lowers the ride's seats_available
\* by the booking's seats_booked and leaves the booking pending; only the
\* second write makes the booking accepted, and it leaves the rides as they are.
C15_TwoWrites ==
    [][\A s \in Slots :
          LET h == slots[s]
          IN /\ (h.pc = "accept_ride_update" /\ slots'[s].pc = "accept_update")
                => /\ rides'[h.ride_id].seats_available
                          = rides[h.ride_id].seats_available - h.seats
                   /\ h.seats = bookings[h.booking_id].seats_booked
                   /\ bookings' = bookings
                   /\ bookings[h.booking_id].status = "pending"
             /\ (h.pc = "accept_update" /\ slots'[s].pc = "accept_notify")
                => /\ bookings[h.booking_id].status = "pending"
                   /\ bookings'[h.booking_id].status = "accepted"
                   /\ rides' = rides]_vars

\* C15 witness: the handler of an accept stopped between its two writes.  No
\* request is being served, the only booking is pending and was never
\* accepted, and its seats are gone from the ride.
C15_Witness ==
    /\ \A s \in Slots : slots[s].pc = "idle"
    /\ Len(bookings) = 1
    /\ bookings[1].status = "pending"
    /\ Notified("booking_accepted", 1) = {}
    /\ rides[bookings[1].ride_id].seats_available
           = created_seats[bookings[1].ride_id] - bookings[1].seats_booked

\* The notifications that store db holds beyond those of the current store.
Written(db) == db.notifications (-) notifications

\* C16: a cancel that succeeds marks the booking cancelled and writes exactly
\* one notification, of type booking_cancelled, with cancelled_by the actor,
\* addressed to the booking's driver when its passenger cancels and to its
\* passenger when its driver cancels, never to the actor.  A passenger's cancel
\* of an accepted 1-seat booking on a ride with seats_available = 0 leaves the
\* ride with seats_available = 1.
C16_CancelNotifiesCounterParty ==
    \A b \in DOMAIN bookings, u \in Users :
        LET r == handle_booking_action(DB, b, "cancel", u)
        IN r.h.result = "ok"
           => /\ r.db.bookings[b].status = "cancelled"
              /\ notifications \sqsubseteq r.db.notifications
              /\ BagCardinality(Written(r.db)) = 1
              /\ \A doc \in BagToSet(Written(r.db)) :
                    /\ doc.type = "booking_cancelled"
                    /\ doc.booking_id = b
                    /\ doc.cancelled_by = u
                    /\ doc.user_id # u
                    /\ u = bookings[b].passenger_id
                       => doc.user_id = bookings[b].driver_id
                    /\ u = bookings[b].driver_id
                       => doc.user_id = bookings[b].passenger_id
              /\ (/\ u = bookings[b].passenger_id
                  /\ bookings[b].status = "accepted"
                  /\ bookings[b].seats_booked = 1
                  /\ rides[bookings[b].ride_id].seats_available = 0)
                 => r.db.rides[bookings[b].ride_id].seats_available = 1

\* C16 witness: the scenario has happened.  A 1-seat booking on a ride created
\* with one seat was accepted and then cancelled by its passenger; the ride
\* has its seat back and the driver holds the booking_cancelled notification.
C16_Witness ==
    \E b \in DOMAIN bookings :
        /\ bookings[b].status = "cancelled"
        /\ bookings[b].cancelled_by = bookings[b].passenger_id
        /\ bookings[b].seats_booked = 1
        /\ created_seats[bookings[b].ride_id] = 1
        /\ rides[bookings[b].ride_id].seats_available = 1
        /\ Notified("booking_accepted", b) # {}
        /\ \E doc \in Notified("booking_cancelled", b) :
              /\ doc.user_id = bookings[b].driver_id
              /\ doc.cancelled_by = bookings[b].passenger_id

\* Store db holds exactly one notification beyond the current ones: unread, of
\* the given type, for the given user, about the given booking and ride.
WroteOne(db, type, user_id, booking_id, ride_id) ==
    /\ notifications \sqsubseteq db.notifications
    /\ BagCardinality(Written(db)) = 1
    /\ \A doc \in BagToSet(Written(db)) :
          /\ doc.type = type
          /\ doc.user_id = user_id
          /\ doc.booking_id = booking_id
          /\ doc.ride_id = ride_id
          /\ doc.read = FALSE

\* C17: a create that succeeds writes exactly one notification, booking_request
\* to the ride's owner; an accept that succeeds exactly one, booking_accepted
\* to the booking's passenger; a reject that succeeds exactly one,
\* booking_rejected to the booking's passenger; each carries the booking id and
\* the ride id and is unread.
C17_OneNotification ==
    /\ \A r \in DOMAIN rides, p \in Users, n \in SeatInputs :
          LET c == create_booking(DB, r, p, n)
          IN c.h.result = "ok"
             => WroteOne(c.db, "booking_request", rides[r].user_id,
                         Len(bookings) + 1, r)
    /\ \A b \in DOMAIN bookings, u \in Users :
          /\ LET a == handle_booking_action(DB, b, "accept", u)
             IN a.h.result = "ok"
                => WroteOne(a.db, "booking_accepted", bookings[b].passenger_id,
                            b, bookings[b].ride_id)
          /\ LET a == handle_booking_action(DB, b, "reject", u)
             IN a.h.result = "ok"
                => WroteOne(a.db, "booking_rejected", bookings[b].passenger_id,
                            b, bookings[b].ride_id)

\* The rides of the given type that qualify for the query of the response:
\* active, within max_distance of the destination, and within the price bound.
Qualifying(ride_type) ==
    {id \in DOMAIN rides :
        /\ rides[id].ride_type = ride_type
        /\ rides[id].status = "active"
        /\ calculate_distance(response.destination_lat, rides[id].destination)
               <= response.max_distance
        /\ IF ride_type = "offer"
           THEN response.price = 0 \/ rides[id].price_per_seat <= response.price
           ELSE rides[id].max_price_per_seat >= response.price}

\* C18: the list get_ride_offers or get_ride_requests returns is in
\* non-decreasing order of distance_to_destination, has no element farther
\* than max_distance, has at most limit elements, holds only qualifying rides,
\* and is the empty list when no ride qualifies.
C18_DiscoveryList ==
    response.op # None
    => LET list == response.result.rides
           ride_type == IF response.op = "get_ride_offers" THEN "offer"
                        ELSE "request"
       IN /\ \A i, j \in DOMAIN list :
                i < j => list[i].distance_to_destination
                             <= list[j].distance_to_destination
          /\ \A i \in DOMAIN list :
                /\ list[i].distance_to_destination <= response.max_distance
                /\ list[i].ride_id \in Qualifying(ride_type)
          /\ Len(list) <= response.result.limit
          /\ Qualifying(ride_type) = {} => list = <<>>

\* C18 witness: a query was answered with two rides, the nearer first although
\* it is the later document, while a third active ride of the same type was
\* left out for being farther than max_distance.
C18_Witness ==
    /\ response.op # None
    /\ response.op = "get_ride_offers"
    /\ Len(response.result.rides) = 2
    /\ response.result.rides[1].ride_id = "r3"
    /\ response.result.rides[2].ride_id = "r1"
    /\ response.result.rides[1].distance_to_destination
           < response.result.rides[2].distance_to_destination
    /\ rides["r2"].ride_type = "offer" /\ rides["r2"].status = "active"
    /\ calculate_distance(response.destination_lat, rides["r2"].destination)
           > response.max_distance

\* C19: the list get_nearby_users returns is in non-decreasing order of
\* distance_km with every element within radius_km, and every place
\* get_nearby_places returns is within the requested radius of the given
\* point.
C19_ProximityRanking ==
    /\ response.op = "get_nearby_users"
       => /\ \A i, j \in DOMAIN response.result :
                i < j => response.result[i].distance_km
                             <= response.result[j].distance_km
          /\ \A i \in DOMAIN response.result :
                response.result[i].distance_km <= response.radius
    /\ response.op = "get_nearby_places"
       => \A i \in DOMAIN response.result :
             response.result[i].distance <= response.radius

\* The response is the distance of the two Delhi landmarks.
Landmarks ==
    /\ response.op = "calculate_distance"
    /\ response.lat1 = 286139 /\ response.lon1 = 772090
    /\ response.lat2 = 287041 /\ response.lon2 = 771025

\* C21 as stated: the Haversine distance of (28.6139, 77.2090) and
\* (28.7041, 77.1025) with Earth radius 6371 km lies between 12.4 km and
\* 12.6 km.
C21_Between12400And12600 ==
    Landmarks => response.result >= 12400 /\ response.result <= 12600

\* C21 amended: that distance lies between 14.4 km and 14.5 km.
C21_Between14400And14500 ==
    Landmarks => response.result >= 14400 /\ response.result <= 14500

\* C21 witness: the distance of the two landmarks has been computed.
C21_Witness == Landmarks /\ response.result > 0

\* C22: under any interleaving of the store calls of accept, reject and cancel
\* requests, the stored status of a booking changes only from pending to
\* accepted, rejected or cancelled, and from accepted to cancelled.
C22_StatusTransitions ==
    [][\A b \in DOMAIN bookings :
          bookings'[b].status # bookings[b].status
          => <<bookings[b].status, bookings'[b].status>>
                 \in {<<"pending", "accepted">>, <<"pending", "rejected">>,
                      <<"pending", "cancelled">>, <<"accepted", "cancelled">>}]_vars

\* C23: update_ride and cancel_ride by a user other than the ride's creator
\* fail with the forbidden error and change nothing, and once a ride's status
\* is completed or cancelled no update_ride or cancel_ride request changes it
\* to a different value.
C23_OwnerOnlyAndTerminal ==
    [][/\ \A r \in DOMAIN rides, u \in Users :
             u # rides[r].user_id
             => /\ \A ride_update \in UpdateInputs :
                     LET c == update_ride(DB, r, ride_update, u)
                     IN c.h.result = "forbidden" /\ c.db = DB
                /\ LET c == cancel_ride(DB, r, u)
                   IN c.h.result = "forbidden" /\ c.db = DB
       /\ \A r \in DOMAIN rides :
             rides[r].status \in {"completed", "cancelled"}
             => rides'[r].status = rides[r].status]_vars

\* C24: seat conservation.  In every state with no handler in progress,
\* reached by any interleaving of create, accept, reject and cancel requests,
\* a ride's seats_available plus the seats_booked of its accepted bookings
\* equals the seat count the ride was created with.
C24_SeatConservation ==
    (\A s \in Slots : slots[s].pc = "idle")
    => \A r \in DOMAIN rides :
           rides[r].seats_available + SeatsOfAccepted(bookings, r, Len(bookings))
               = created_seats[r]

\* C25: the seats of an accepted booking are returned to the ride at most
\* once, two concurrent cancels of the same booking included: when the ride's
\* only booking ends cancelled and no handler is in progress, the ride has no
\* more seats than it was created with.
C25_SeatsReturnedOnce ==
    \A b \in DOMAIN bookings :
        (/\ \A s \in Slots : slots[s].pc = "idle"
         /\ DOMAIN bookings = {b}
         /\ bookings[b].status = "cancelled")
        => rides[bookings[b].ride_id].seats_available
               <= created_seats[bookings[b].ride_id]

\* The results that are client errors (status 400, 403 or 404).
ClientErrors ==
    {"ride_not_found", "booking_not_found", "passenger_not_found", "forbidden",
     "cannot_modify", "not_pending", "not_enough_seats", "invalid_action",
     "own_ride", "already_booked"}

\* The client errors that the requests of this state end with.
ErrorsHere ==
    {create_booking(DB, ride_id, p, n).h.result :
        ride_id \in RideIds \cup {NoRide}, p \in Users \cup {Ghost},
        n \in SeatInputs}
    \cup {handle_booking_action(DB, b, token, u).h.result :
            b \in BookingInputs, token \in ActionTokens, u \in Users}

\* C26: every create_booking or handle_booking_action request that ends with
\* a client error leaves all bookings, all rides and the notifications exactly
\* as they were before the request.
C26_ClientErrorWritesNothing ==
    /\ \A ride_id \in RideIds \cup {NoRide}, p \in Users \cup {Ghost},
          n \in SeatInputs :
          LET r == create_booking(DB, ride_id, p, n)
          IN r.h.result \in ClientErrors => r.db = DB
    /\ \A b \in BookingInputs, token \in ActionTokens, u \in Users :
          LET r == handle_booking_action(DB, b, token, u)
          IN r.h.result \in ClientErrors => r.db = DB

\* C26 witness: a store with a rejected and an accepted booking on which the
\* requests end with every one of the client errors.
C26_Witness ==
    /\ \E b \in DOMAIN bookings : bookings[b].status = "rejected"
    /\ \E b \in DOMAIN bookings : bookings[b].status = "accepted"
    /\ ClientErrors \subseteq ErrorsHere

\* The ride ids on pages 1..n of get_ride_offers for the same filters and
\* limit, one page after the other.
RECURSIVE PagesOfOffers(_, _, _, _, _)
PagesOfOffers(destination_lat, max_distance, max_price, limit, n) ==
    IF n = 0 THEN <<>>
    ELSE LET list == get_ride_offers(rides, destination_lat, max_distance,
                                     max_price, n, limit).rides
         IN PagesOfOffers(destination_lat, max_distance, max_price, limit, n - 1)
                \o [i \in DOMAIN list |-> list[i].ride_id]

\* C27: paging through get_ride_offers with the same filters and limit and
\* the page numbers 1, 2, 3, ... returns every active offer within
\* max_distance exactly once.
C27_PagingIsComplete ==
    \A destination_lat \in Coords, max_distance \in 1..MaxCoord,
       limit \in 1..MaxLimit :
        LET all == PagesOfOffers(destination_lat, max_distance, 0, limit,
                                 Len(SearchOrder))
            within == {id \in DOMAIN rides :
                          /\ rides[id].ride_type = "offer"
                          /\ rides[id].status = "active"
                          /\ calculate_distance(destination_lat,
                                                rides[id].destination)
                                 <= max_distance}
        IN /\ {all[i] : i \in DOMAIN all} = within
           /\ \A i, j \in DOMAIN all : all[i] = all[j] => i = j

\* C28: a passenger whose booking on an active ride has been accepted by the
\* driver may send a chat message on that ride: send_message by that
\* passenger does not fail with the forbidden error.
C28_AcceptedPassengerMayChat ==
    \A b \in DOMAIN bookings :
        (/\ bookings[b].status = "accepted"
         /\ rides[bookings[b].ride_id].status = "active")
        => send_message(DB, bookings[b].ride_id, bookings[b].passenger_id).result
               # "forbidden"

\* The connected users subscribed to user_id.
ConnectedSubscribers(user_id) ==
    {manager.subscriptions[i].user_id : i \in
        {j \in DOMAIN manager.subscriptions :
            /\ user_id \in manager.subscriptions[j].targets
            /\ manager.subscriptions[j].user_id
                   \in Keys(manager.active_connections)}}

\* C29: update_location for a user sends one location_update message to every
\* connected subscriber of the user whose connection works and completes
\* normally, also when the send to one subscriber fails.
C29_UpdateLocationCompletes ==
    \A user_id \in Users, latitude \in Coords,
       broken \in {{}} \cup {{u} : u \in Users} :
        LET r == update_location(manager, user_id, latitude, broken)
        IN /\ r.result = "ok"
           /\ {r.sent[i] : i \in DOMAIN r.sent}
                  = ConnectedSubscribers(user_id) \ broken
           /\ \A i, j \in DOMAIN r.sent : r.sent[i] = r.sent[j] => i = j

\* C30: when a user has opened a second WebSocket under the same user_id and
\* the first one then closes, the newer connection stays registered in
\* active_connections and the user's location and subscriptions are kept.
C30_OldCloseKeepsNewConnection ==
    [][\A old \in endpoints, new \in endpoints :
          (/\ old.user_id = new.user_id
           /\ old.websocket # new.websocket
           /\ Entry(manager.active_connections, new.user_id) = new
           /\ old \notin endpoints'
           /\ new \in endpoints')
          => /\ Entry(manager'.active_connections, new.user_id)
                    = Entry(manager.active_connections, new.user_id)
             /\ Entry(manager'.user_locations, new.user_id)
                    = Entry(manager.user_locations, new.user_id)
             /\ Entry(manager'.subscriptions, new.user_id)
                    = Entry(manager.subscriptions, new.user_id)]_vars

====
